---- MODULE Spec2Model ----
(***************************************************************************)
(* Verification model of the image streaming servers.                      *)
(*                                                                         *)
(*   scraper_3.py   : a scraper thread appends encoded images to the       *)
(*                    global bounded deque SCRAPED_IMAGES; one             *)
(*                    image_sender coroutine per websocket connection      *)
(*                    pops from the left and sends.                        *)
(*   ImageCreator.py: one run_feed_task per RSS feed keeps a watermark     *)
(*                    (last_published), fetches the entries newer than     *)
(*                    it and sends the images on the websocket.            *)
(***************************************************************************)
EXTENDS Integers, Sequences, FiniteSets, TLC

\* ------------------------------------------------------------------------
\* Bounds of the model
\* ------------------------------------------------------------------------

\* capacity of the delivery queue (deque maxlen, 1000 in the program)
QueueCap == 2

\* number of image sources the scraper thread handles in one run
MaxPush == 3

\* max_pages of scrape_subreddit_images (3 in the program)
MaxPages == 2

\* the value None of Python where a string is expected: a sequence that is
\* no string (strings are sequences of character codes)
None == <<-1>>

\* the websocket connections a server can have open
Conns == {1, 2}

VARIABLES
    SCRAPED_IMAGES,   \* scraper_3: the global deque of encoded images
    srcCount,         \* scraper_3: image sources handled by the scraper thread
    spc,              \* scraper_3: position of each connection's image_sender
    img_data,         \* scraper_3: <<image>> a sender popped and is sending, or <<>>
    connOpen,         \* scraper_3: whether the peer of a connection is there
    pushLog,          \* history: images appended to the deque, in order
    evicted,          \* history: images dropped by an append on a full deque
    popLog,           \* history: <<connection, image>> of every popleft
    wsSent,           \* history: images delivered on each connection
    scr,              \* scraper_3: position of the scraper thread
    pages_scraped,    \* scraper_3: pages_scraped of scrape_subreddit_images
    remoteHung,       \* environment: the scraped site stopped answering
    next_page_url     \* scraper_3: next_page_url of scrape_subreddit_images

\* the state of the scraper thread's page loop
scrVars == <<scr, pages_scraped, remoteHung, next_page_url>>

queueVars == <<SCRAPED_IMAGES, srcCount, spc, img_data, connOpen,
               pushLog, evicted, popLog, wsSent, scrVars>>

\* the RSS feeds of ImageCreator.py (RSS_FEEDS), each with its own task
Feeds == {1, 2}

\* largest number of entries a feed document lists
MaxEntries == 2

\* Timestamps are the strings of the entries' "published" field; a string
\* is the sequence of its characters' codes.  "" (a missing field reads
\* as ""), "10" and "2": Python orders them "" < "10" < "2".
Timestamps == {<<>>, <<1, 0>>, <<2>>}

\* what extract_image_url_from_entry finds in an entry: a URL, the empty
\* string (an url or href attribute that is empty) or None
Urls == {None, <<>>, <<97>>}

\* the entries a feed document can hold
Entries == [published : Timestamps, url : Urls]

VARIABLES
    catalog,          \* environment: the entries each feed document lists
    wsOpen,           \* ImageCreator: whether the websocket peer is there
    fpc,              \* ImageCreator: position of each run_feed_task
    last_published,   \* run_feed_task: the watermark of the feed
    updated_pub,      \* run_feed_task: second result of fetch_new_images
    images,           \* run_feed_task: first result of fetch_new_images
    sent,             \* run_feed_task: images of this cycle already sent
    feedOk,           \* history: the last fetch_feed returned a document
    fetched,          \* history: entries handed to fetch_image, last cycle
    failed,           \* history: positions in fetched whose fetch_image failed
    failedPrev,       \* history: entries the cycle before failed to fetch
    processed,        \* history: timestamps of all images ever produced
    lastDelivered,    \* history: timestamp of the last image sent
    sendErr,          \* history: a send raised in the current cycle
    changed,          \* history: the document changed since the last fetch
    fullCycle,        \* history: the last cycle started unset and took all
    prevFull,         \* history: the same, of the cycle before
    hpc,              \* ImageCreator: position of the handler image_sender
    viewerStalled,    \* environment: the peer stopped reading the websocket
    closedCycle,      \* history: the cycle began on a closed websocket
    delivered         \* history: timestamps of the images sent in the
                      \* cycles before the current one

\* the state of the session around the feed tasks
sessVars == <<hpc, viewerStalled, closedCycle, delivered>>

feedVars == <<catalog, wsOpen, fpc, last_published, updated_pub, images, sent,
              feedOk, fetched, failed, failedPrev, processed, lastDelivered,
              sendErr, changed, fullCycle, prevFull, sessVars>>

\* the largest height and width of an image plane
MaxH == 2
MaxW == 3

\* the largest magnitude of a channel shift
MaxShift == 3

\* shift_channel (scraper_3.py) applied to one channel
VARIABLES
    sh_pc,            \* "off", "call", "returned" or "raised"
    channel,          \* shift_channel: the argument channel, a list of rows
    shift,            \* shift_channel: the argument shift
    channel_shifted   \* shift_channel: the result, once it has returned

shiftVars == <<sh_pc, channel, shift, channel_shifted>>

\* apply_vhs_filter_pil / apply_better_vhs_effect (scraper_3.py) applied to
\* one image
VARIABLES
    xf_pc,              \* "off", the stage to run next, "done" or "raised"
    via_pil,            \* the call came through apply_vhs_filter_pil
    img_mode,           \* apply_vhs_filter_pil: the mode of the argument img
    img,                \* the samples of img, a grey image: a list of rows
    luma_bandwidth,     \* apply_better_vhs_effect: parameter
    chroma_bandwidth,   \* apply_better_vhs_effect: parameter
    ghost_shift_pixels, \* apply_better_vhs_effect: parameter
    Y, Cr, Cb,          \* apply_better_vhs_effect: the three planes
    out_bgr,            \* apply_better_vhs_effect: the result, <<B, G, R>>
    np_random,          \* the state of the global generator of np.random
    py_random,          \* the state of the global generator of random
    run,                \* history: 1 or 2, the invocation on this image
    out_first           \* history: the result of the first invocation

xfVars == <<xf_pc, via_pil, img_mode, img, luma_bandwidth, chroma_bandwidth,
            ghost_shift_pixels, Y, Cr, Cb, out_bgr, np_random, py_random,
            run, out_first>>

\* the largest history_size and the largest number of img tags of a page
MaxHistory == 1
MaxTags == 2

\* scrape_subreddit_images of scraper_2.py, the scraper that downloads to
\* a folder
VARIABLES
    d_pc,             \* "off", "page", "pageget", "imgs" or "done"
    d_pages_scraped,  \* scraper_2: pages_scraped
    d_next_page_url,  \* scraper_2: next_page_url
    history_size,     \* scraper_2: the parameter history_size
    downloaded_urls,  \* scraper_2: the deque of the URLs downloaded
    tags_left,        \* the img tags of the page that are still to come
    files,            \* the file names present in download_folder
    passed            \* history: how often (up to 2) each URL was passed
                      \* to download_image

diskVars == <<d_pc, d_pages_scraped, d_next_page_url, history_size,
              downloaded_urls, tags_left, files, passed>>

\* the largest number of crawling sessions followed and of zoomable-img
\* elements visible at once
MaxSessions == 2
MaxVisible == 2

\* RedditCrawler of scraper.py
VARIABLES
    c_pc,             \* "off", "init", "visible", "gallery", "scroll",
                      \* "finally" or "sleep"
    driver,           \* self.driver (and self.wait) is set
    processed_images, \* self.processed_images
    downloaded,       \* the images passed to download_image
    sessions,         \* history: the sessions started by start
    cutoff_seen       \* history: a post older than the cutoff was met

crawlVars == <<c_pc, driver, processed_images, downloaded, sessions,
               cutoff_seen>>

\* the state of the functions that are followed on their own
toolVars == <<shiftVars, xfVars, diskVars, crawlVars>>

vars == <<queueVars, feedVars, toolVars>>

\* ------------------------------------------------------------------------
\* collections.deque(maxlen=N)
\* ------------------------------------------------------------------------

\* mutant: a bounded buffer that refuses the new item when it is full
DequeAppendDropNewest(q, x, cap) ==
    IF Len(q) >= cap THEN q ELSE Append(q, x)

\* deque.append on a deque with maxlen cap: when the deque is full the
\* item at the left end is discarded
DequeAppend(q, x, cap) ==
    IF cap = 0 THEN q
    ELSE IF Len(q) >= cap THEN Append(Tail(q), x)
    ELSE Append(q, x)

\* what an append discards: the leftmost item of a full deque
DequeDiscarded(q, cap) ==
    IF Len(q) >= cap /\ Len(q) > 0 THEN {Head(q)} ELSE {}

\* mutant: pop from the right end (deque.pop)
DequePopRight(q) ==
    [item |-> q[Len(q)], rest |-> SubSeq(q, 1, Len(q) - 1)]

\* deque.popleft on a non-empty deque: the leftmost item and the rest
DequePopleft(q) ==
    [item |-> Head(q), rest |-> Tail(q)]

\* ------------------------------------------------------------------------
\* scraper_3.py: the scraper thread and the senders
\* ------------------------------------------------------------------------

\* the URL of a page (any non-empty string) and what a page offers as its
\* next link: none (no next-button span, or no a with an href in it), an
\* empty href, or the URL of a page
PageUrl == <<104>>
NextLinks == {None, <<>>, PageUrl}

InitQueue ==
    /\ SCRAPED_IMAGES = <<>>
    /\ srcCount = 0
    /\ spc = [c \in Conns |-> "none"]
    /\ img_data = [c \in Conns |-> <<>>]
    /\ connOpen = [c \in Conns |-> FALSE]
    /\ pushLog = <<>>
    /\ evicted = {}
    /\ popLog = <<>>
    /\ wsSent = [c \in Conns |-> <<>>]
    /\ scr = "page"
    /\ pages_scraped = 0
    /\ remoteHung = FALSE
    /\ next_page_url = PageUrl

\* scrape_subreddit_images: "while pages_scraped < max_pages and
\* next_page_url:" and the call "requests.get(next_page_url, ...)" of the
\* page, or the end of the loop
ScrapePageBegin ==
    /\ scr = "page"
    /\ scr' = IF pages_scraped < MaxPages /\ next_page_url # <<>>
              THEN "pageget" ELSE "done"
    /\ UNCHANGED <<SCRAPED_IMAGES, srcCount, spc, img_data, connOpen,
                   pushLog, evicted, popLog, wsSent, pages_scraped,
                   remoteHung, next_page_url>>
    /\ UNCHANGED feedVars
    /\ UNCHANGED toolVars

\* The page request returns: status 200 and the page is parsed, or another
\* status and the loop ends.  The call has no timeout: it returns only when
\* the site answers.
ScrapePageReturn ==
    /\ scr = "pageget"
    /\ ~remoteHung
    /\ \E ok \in BOOLEAN : scr' = IF ok THEN "imgs" ELSE "done"
    /\ UNCHANGED <<SCRAPED_IMAGES, srcCount, spc, img_data, connOpen,
                   pushLog, evicted, popLog, wsSent, pages_scraped,
                   remoteHung, next_page_url>>
    /\ UNCHANGED feedVars
    /\ UNCHANGED toolVars

\* One new image source of the page: the download (timeout=5) and the
\* transform succeed and the PNG bytes are appended, or they fail and
\* nothing is stored.  An image is named by the ordinal of its source.
ScrapeImage ==
    /\ scr = "imgs"
    /\ srcCount < MaxPush
    /\ srcCount' = srcCount + 1
    /\ \E ok \in (IF remoteHung THEN {FALSE} ELSE BOOLEAN) :
         IF ok
         THEN /\ SCRAPED_IMAGES' =
                    DequeAppend(SCRAPED_IMAGES, srcCount + 1, QueueCap)
              /\ evicted' = evicted \cup DequeDiscarded(SCRAPED_IMAGES, QueueCap)
              /\ pushLog' = Append(pushLog, srcCount + 1)
         ELSE UNCHANGED <<SCRAPED_IMAGES, evicted, pushLog>>
    /\ UNCHANGED <<spc, img_data, connOpen, popLog, wsSent, scrVars>>
    /\ UNCHANGED feedVars
    /\ UNCHANGED toolVars

\* The images of the page are done: the page has a next link, its href
\* (which may be empty) becomes next_page_url and "pages_scraped += 1", or
\* it has none and the loop ends.
ScrapeNextPage ==
    /\ scr = "imgs"
    /\ \E link \in NextLinks :
         IF link # None
         THEN /\ next_page_url' = link
              /\ pages_scraped' = pages_scraped + 1
              /\ scr' = "page"
         ELSE /\ scr' = "done"
              /\ UNCHANGED <<pages_scraped, next_page_url>>
    /\ UNCHANGED <<SCRAPED_IMAGES, srcCount, spc, img_data, connOpen,
                   pushLog, evicted, popLog, wsSent, remoteHung>>
    /\ UNCHANGED feedVars
    /\ UNCHANGED toolVars

\* the scraped site stops answering
RemoteHang ==
    /\ ~remoteHung
    /\ remoteHung' = TRUE
    /\ UNCHANGED <<SCRAPED_IMAGES, srcCount, spc, img_data, connOpen,
                   pushLog, evicted, popLog, wsSent, scr, pages_scraped,
                   next_page_url>>
    /\ UNCHANGED feedVars
    /\ UNCHANGED toolVars

\* websockets.serve starts image_sender for a new connection
Connect(c) ==
    /\ spc[c] = "none"
    /\ spc' = [spc EXCEPT ![c] = "check"]
    /\ connOpen' = [connOpen EXCEPT ![c] = TRUE]
    /\ UNCHANGED <<SCRAPED_IMAGES, srcCount, img_data, pushLog, evicted,
                   popLog, wsSent>>
    /\ UNCHANGED scrVars
    /\ UNCHANGED feedVars
    /\ UNCHANGED toolVars

\* the peer goes away
Disconnect(c) ==
    /\ connOpen[c]
    /\ connOpen' = [connOpen EXCEPT ![c] = FALSE]
    /\ UNCHANGED <<SCRAPED_IMAGES, srcCount, spc, img_data, pushLog, evicted,
                   popLog, wsSent>>
    /\ UNCHANGED scrVars
    /\ UNCHANGED feedVars
    /\ UNCHANGED toolVars

\* senders that could run between the test and the popleft of another
LoopFreeAlways(c) == TRUE

\* The event loop runs one coroutine at a time: between the test of the
\* deque and the popleft no other sender runs (the scraper thread may).
LoopFree(c) == \A d \in Conns \ {c} : spc[d] # "pop"

\* a sender that ends when it finds the deque empty
SenderCheckQuit(c) ==
    /\ spc[c] = "check"
    /\ LoopFree(c)
    /\ spc' = [spc EXCEPT ![c] =
                 IF Len(SCRAPED_IMAGES) > 0 THEN "pop" ELSE "done"]
    /\ UNCHANGED <<SCRAPED_IMAGES, srcCount, img_data, connOpen, pushLog,
                   evicted, popLog, wsSent>>
    /\ UNCHANGED scrVars
    /\ UNCHANGED feedVars
    /\ UNCHANGED toolVars

\* image_sender: "if SCRAPED_IMAGES:"
SenderCheck(c) ==
    /\ spc[c] = "check"
    /\ LoopFree(c)
    /\ spc' = [spc EXCEPT ![c] =
                 IF Len(SCRAPED_IMAGES) > 0 THEN "pop" ELSE "idle"]
    /\ UNCHANGED <<SCRAPED_IMAGES, srcCount, img_data, connOpen, pushLog,
                   evicted, popLog, wsSent>>
    /\ UNCHANGED scrVars
    /\ UNCHANGED feedVars
    /\ UNCHANGED toolVars

\* image_sender: "img_data = SCRAPED_IMAGES.popleft()"; popleft on an
\* empty deque raises IndexError, which the outer handler turns into the
\* end of the sender: image_sender returns
SenderPop(c) ==
    /\ spc[c] = "pop"
    /\ IF Len(SCRAPED_IMAGES) > 0
       THEN LET r == DequePopleft(SCRAPED_IMAGES) IN
            /\ SCRAPED_IMAGES' = r.rest
            /\ img_data' = [img_data EXCEPT ![c] = <<r.item>>]
            /\ popLog' = Append(popLog, <<c, r.item>>)
            /\ spc' = [spc EXCEPT ![c] = "send"]
       ELSE /\ spc' = [spc EXCEPT ![c] = "done"]
            /\ UNCHANGED <<SCRAPED_IMAGES, img_data, popLog>>
    /\ UNCHANGED <<srcCount, connOpen, pushLog, evicted, wsSent>>
    /\ UNCHANGED scrVars
    /\ UNCHANGED feedVars
    /\ UNCHANGED toolVars

\* a sender that goes on with its loop after a send that raised
SenderSendContinue(c) ==
    /\ spc[c] = "send"
    /\ IF connOpen[c]
       THEN \E ok \in BOOLEAN :
              IF ok
              THEN /\ wsSent' = [wsSent EXCEPT ![c] =
                                    Append(@, img_data[c][1])]
                   /\ spc' = [spc EXCEPT ![c] = "delay"]
              ELSE /\ spc' = [spc EXCEPT ![c] = "delay"]
                   /\ UNCHANGED wsSent
       ELSE /\ spc' = [spc EXCEPT ![c] = "delay"]
            /\ UNCHANGED wsSent
    /\ img_data' = [img_data EXCEPT ![c] = <<>>]
    /\ UNCHANGED <<SCRAPED_IMAGES, srcCount, connOpen, pushLog, evicted,
                   popLog>>
    /\ UNCHANGED scrVars
    /\ UNCHANGED feedVars
    /\ UNCHANGED toolVars

\* image_sender: "await websocket.send(img_data)".  The image is sent; or
\* the send raises, ConnectionClosed on a closed connection or another
\* exception, and the handlers around the loop end the sender:
\* image_sender returns.
SenderSend(c) ==
    /\ spc[c] = "send"
    /\ IF connOpen[c]
       THEN \E ok \in BOOLEAN :
              IF ok
              THEN /\ wsSent' = [wsSent EXCEPT ![c] =
                                    Append(@, img_data[c][1])]
                   /\ spc' = [spc EXCEPT ![c] = "delay"]
              ELSE /\ spc' = [spc EXCEPT ![c] = "done"]
                   /\ UNCHANGED wsSent
       ELSE /\ spc' = [spc EXCEPT ![c] = "done"]
            /\ UNCHANGED wsSent
    /\ img_data' = [img_data EXCEPT ![c] = <<>>]
    /\ UNCHANGED <<SCRAPED_IMAGES, srcCount, connOpen, pushLog, evicted,
                   popLog>>
    /\ UNCHANGED scrVars
    /\ UNCHANGED feedVars
    /\ UNCHANGED toolVars

\* image_sender: "await asyncio.sleep(1.0)" of the empty branch is over
SenderIdleWake(c) ==
    /\ spc[c] = "idle"
    /\ spc' = [spc EXCEPT ![c] = "delay"]
    /\ UNCHANGED <<SCRAPED_IMAGES, srcCount, img_data, connOpen, pushLog,
                   evicted, popLog, wsSent>>
    /\ UNCHANGED scrVars
    /\ UNCHANGED feedVars
    /\ UNCHANGED toolVars

\* image_sender: "await asyncio.sleep(SEND_DELAY)" is over, next iteration
SenderDelayWake(c) ==
    /\ spc[c] = "delay"
    /\ spc' = [spc EXCEPT ![c] = "check"]
    /\ UNCHANGED <<SCRAPED_IMAGES, srcCount, img_data, connOpen, pushLog,
                   evicted, popLog, wsSent>>
    /\ UNCHANGED scrVars
    /\ UNCHANGED feedVars
    /\ UNCHANGED toolVars

\* websockets.serve(image_sender, ...): once image_sender has returned, the
\* server closes the connection it was started for.  This is a step of
\* its own, after the return: the scraper thread and the other senders
\* run in between.
ServerClose(c) ==
    /\ spc[c] = "done"
    /\ connOpen[c]
    /\ connOpen' = [connOpen EXCEPT ![c] = FALSE]
    /\ UNCHANGED <<SCRAPED_IMAGES, srcCount, spc, img_data, pushLog, evicted,
                   popLog, wsSent>>
    /\ UNCHANGED scrVars
    /\ UNCHANGED feedVars
    /\ UNCHANGED toolVars

QueueNext ==
    \/ ScrapePageBegin
    \/ ScrapePageReturn
    \/ ScrapeImage
    \/ ScrapeNextPage
    \/ RemoteHang
    \/ \E c \in Conns : Connect(c)
    \/ \E c \in Conns : Disconnect(c)
    \/ \E c \in Conns : SenderCheck(c)
    \/ \E c \in Conns : SenderPop(c)
    \/ \E c \in Conns : SenderSend(c)
    \/ \E c \in Conns : SenderIdleWake(c)
    \/ \E c \in Conns : SenderDelayWake(c)
    \/ \E c \in Conns : ServerClose(c)

\* ------------------------------------------------------------------------
\* ImageCreator.py: strings, sorting and the selection of new entries
\* ------------------------------------------------------------------------

\* Python's "a < b" on strings: lexicographic by character code, a proper
\* prefix being smaller
RECURSIVE StrLess(_, _)
StrLess(a, b) ==
    IF b = <<>> THEN FALSE
    ELSE IF a = <<>> THEN TRUE
    ELSE IF Head(a) < Head(b) THEN TRUE
    ELSE IF Head(a) > Head(b) THEN FALSE
    ELSE StrLess(Tail(a), Tail(b))

\* mutant: the watermark test lets an entry as old as the watermark pass
is_newer_or_equal(published, last) ==
    IF last = None THEN TRUE ELSE ~StrLess(published, last)

\* mutant: the watermark is not consulted
is_newer_always(published, last) == TRUE

\* is_newer: everything is newer than an unset watermark, otherwise
\* "published > last_published" on strings
is_newer(published, last) ==
    IF last = None THEN TRUE ELSE StrLess(last, published)

\* insertion of e behind the entries whose key is not larger (stable)
RECURSIVE InsertByPublished(_, _)
InsertByPublished(s, e) ==
    IF s = <<>> THEN <<e>>
    ELSE IF StrLess(e.published, Head(s).published) THEN <<e>> \o s
    ELSE <<Head(s)>> \o InsertByPublished(Tail(s), e)

RECURSIVE SortByPublished(_)
SortByPublished(s) ==
    IF s = <<>> THEN <<>>
    ELSE InsertByPublished(SortByPublished(SubSeq(s, 1, Len(s) - 1)),
                           s[Len(s)])

\* mutant: the entries are processed in document order
sorted_entries_unsorted(entries) == entries

\* "sorted(entries, key=lambda e: e.get('published',''))": a stable sort
sorted_entries(entries) == SortByPublished(entries)

\* "if img_url:": the truth value of what extract_image_url_from_entry
\* returned; None and the empty string are false
has_img_url(img_url) == img_url # None /\ img_url # <<>>

\* extract_image_url_from_entry: the first image URL of the entry, or None
extract_image_url_from_entry(entry) == entry.url

\* mutant: the new watermark starts unset in every cycle
initial_updated_unset(last) == None

\* "updated_last_published = last_published"
initial_updated(last) == last

\* mutant: the comparison of the watermark update is reversed
advance_updated_reversed(updated, published) ==
    IF updated = None \/ StrLess(published, updated)
    THEN published ELSE updated

\* "if updated_last_published is None or published > updated_last_published:
\*      updated_last_published = published"
advance_updated(updated, published) ==
    IF updated = None \/ StrLess(updated, published)
    THEN published ELSE updated

\* The for loop of fetch_new_images from entry i on.  oks[i] tells whether
\* fetch_image returns the image of entry i or None.  acc holds the
\* results so far, the entries handed to fetch_image and the positions
\* among them of the failed ones (history).
RECURSIVE FetchLoop(_, _, _, _, _)
FetchLoop(entries, oks, last, i, acc) ==
    IF i > Len(entries) THEN acc
    ELSE LET entry == entries[i]
             published == entry.published
         IN IF ~is_newer(published, last)
            THEN FetchLoop(entries, oks, last, i + 1, acc)
            ELSE IF ~has_img_url(extract_image_url_from_entry(entry))
            THEN FetchLoop(entries, oks, last, i + 1, acc)
            ELSE IF oks[i]
            THEN FetchLoop(entries, oks, last, i + 1,
                    [acc EXCEPT
                       !.new_images = Append(@, entry),
                       !.updated = advance_updated(@, published),
                       !.fetched = Append(@, entry)])
            ELSE FetchLoop(entries, oks, last, i + 1,
                    [acc EXCEPT
                       !.fetched = Append(@, entry),
                       !.failed = @ \cup {Len(acc.fetched) + 1}])

\* mutant loop: a failed fetch_image ends the loop
RECURSIVE FetchLoopAbort(_, _, _, _, _)
FetchLoopAbort(entries, oks, last, i, acc) ==
    IF i > Len(entries) THEN acc
    ELSE LET entry == entries[i]
             published == entry.published
         IN IF ~is_newer(published, last)
            THEN FetchLoopAbort(entries, oks, last, i + 1, acc)
            ELSE IF ~has_img_url(extract_image_url_from_entry(entry))
            THEN FetchLoopAbort(entries, oks, last, i + 1, acc)
            ELSE IF oks[i]
            THEN FetchLoopAbort(entries, oks, last, i + 1,
                    [acc EXCEPT
                       !.new_images = Append(@, entry),
                       !.updated = advance_updated(@, published),
                       !.fetched = Append(@, entry)])
            ELSE [acc EXCEPT
                       !.fetched = Append(@, entry),
                       !.failed = @ \cup {Len(acc.fetched) + 1}]

\* mutant: fetch_new_images gives up at the first image that fails
fetch_new_images_abort(docOk, doc, oks, last) ==
    IF ~docOk
    THEN [new_images |-> <<>>, updated |-> last,
          fetched |-> <<>>, failed |-> {}]
    ELSE FetchLoopAbort(sorted_entries(doc), oks, last, 1,
            [new_images |-> <<>>, updated |-> initial_updated(last),
             fetched |-> <<>>, failed |-> {}])

\* fetch_new_images that returns an unset watermark when fetch_feed fails
fetch_new_images_reset(docOk, doc, oks, last) ==
    IF ~docOk
    THEN [new_images |-> <<>>, updated |-> None,
          fetched |-> <<>>, failed |-> {}]
    ELSE FetchLoop(sorted_entries(doc), oks, last, 1,
            [new_images |-> <<>>, updated |-> initial_updated(last),
             fetched |-> <<>>, failed |-> {}])

\* fetch_new_images: docOk tells whether fetch_feed returned the document
\* doc; the result is (new_images, updated_last_published)
fetch_new_images(docOk, doc, oks, last) ==
    IF ~docOk
    THEN [new_images |-> <<>>, updated |-> last,
          fetched |-> <<>>, failed |-> {}]
    ELSE FetchLoop(sorted_entries(doc), oks, last, 1,
            [new_images |-> <<>>, updated |-> initial_updated(last),
             fetched |-> <<>>, failed |-> {}])


\* ------------------------------------------------------------------------
\* ImageCreator.py: run_feed_task, its feed document and the websocket
\* ------------------------------------------------------------------------

\* image_sender has created one task per feed and waits for them; every
\* task is at the top of its first cycle with "last_published = None"
InitTasks ==
    /\ wsOpen = TRUE
    /\ hpc = "wait"
    /\ viewerStalled = FALSE
    /\ closedCycle = [f \in Feeds |-> FALSE]
    /\ delivered = [f \in Feeds |-> {}]
    /\ fpc = [f \in Feeds |-> "poll"]
    /\ last_published = [f \in Feeds |-> None]
    /\ updated_pub = [f \in Feeds |-> None]
    /\ images = [f \in Feeds |-> <<>>]
    /\ sent = [f \in Feeds |-> 0]
    /\ feedOk = [f \in Feeds |-> FALSE]
    /\ fetched = [f \in Feeds |-> <<>>]
    /\ failed = [f \in Feeds |-> {}]
    /\ failedPrev = [f \in Feeds |-> {}]
    /\ processed = [f \in Feeds |-> {}]
    /\ lastDelivered = [f \in Feeds |-> None]
    /\ sendErr = [f \in Feeds |-> FALSE]
    /\ changed = [f \in Feeds |-> FALSE]
    /\ fullCycle = [f \in Feeds |-> FALSE]
    /\ prevFull = [f \in Feeds |-> FALSE]

InitFeed ==
    /\ catalog = [f \in Feeds |-> <<>>]
    /\ InitTasks

\* The remote feed lists a new entry in front of the others.  The task
\* reads the document once per cycle, so a change at any time is a change
\* before the next read: the document changes while the task is about to
\* read it.
CatalogPublish(f) ==
    /\ fpc[f] = "poll"
    /\ Len(catalog[f]) < MaxEntries
    /\ \E e \in Entries : catalog' = [catalog EXCEPT ![f] = <<e>> \o @]
    /\ changed' = [changed EXCEPT ![f] = TRUE]
    /\ UNCHANGED <<wsOpen, fpc, last_published, updated_pub, images, sent,
                   feedOk, fetched, failed, failedPrev, processed,
                   lastDelivered, sendErr, fullCycle, prevFull>>
    /\ UNCHANGED sessVars
    /\ UNCHANGED queueVars
    /\ UNCHANGED toolVars

\* The remote feed drops its last entry.
CatalogRetire(f) ==
    /\ fpc[f] = "poll"
    /\ Len(catalog[f]) > 0
    /\ catalog' = [catalog EXCEPT ![f] = SubSeq(@, 1, Len(@) - 1)]
    /\ changed' = [changed EXCEPT ![f] = TRUE]
    /\ UNCHANGED <<wsOpen, fpc, last_published, updated_pub, images, sent,
                   feedOk, fetched, failed, failedPrev, processed,
                   lastDelivered, sendErr, fullCycle, prevFull>>
    /\ UNCHANGED sessVars
    /\ UNCHANGED queueVars
    /\ UNCHANGED toolVars

\* the websocket peer goes away
WsClose ==
    /\ wsOpen
    /\ wsOpen' = FALSE
    /\ UNCHANGED <<catalog, fpc, last_published, updated_pub, images, sent,
                   feedOk, fetched, failed, failedPrev, processed,
                   lastDelivered, sendErr, changed, fullCycle, prevFull>>
    /\ UNCHANGED sessVars
    /\ UNCHANGED queueVars
    /\ UNCHANGED toolVars

\* every entry of the document has an image URL
AllHaveImage(doc) ==
    \A i \in 1..Len(doc) :
       has_img_url(extract_image_url_from_entry(doc[i]))

\* run_feed_task: the task calls fetch_new_images and is suspended in it,
\* at the requests of fetch_feed and of fetch_image, while other tasks
\* run.  The document is the one the feed lists during the call.
FeedFetchBegin(f) ==
    /\ fpc[f] = "poll"
    /\ fpc' = [fpc EXCEPT ![f] = "fetching"]
    /\ UNCHANGED <<catalog, wsOpen, last_published, updated_pub, images,
                   sent, feedOk, fetched, failed, failedPrev, processed,
                   lastDelivered, sendErr, changed, fullCycle, prevFull>>
    /\ UNCHANGED sessVars
    /\ UNCHANGED queueVars
    /\ UNCHANGED toolVars

\* run_feed_task: "images, updated_pub = await fetch_new_images(...)"
\* returns.  fetch_feed returned the document or None; each fetch_image
\* returned the image or None.
FeedFetch(f) ==
    /\ fpc[f] = "fetching"
    /\ \E docOk \in BOOLEAN, oks \in [1..MaxEntries -> BOOLEAN] :
         LET r == fetch_new_images(docOk, catalog[f], oks, last_published[f])
         IN /\ images' = [images EXCEPT ![f] = r.new_images]
            /\ updated_pub' = [updated_pub EXCEPT ![f] = r.updated]
            /\ feedOk' = [feedOk EXCEPT ![f] = docOk]
            /\ fetched' = [fetched EXCEPT ![f] = r.fetched]
            /\ failed' = [failed EXCEPT ![f] = r.failed]
            /\ processed' = [processed EXCEPT ![f] =
                   @ \cup {r.new_images[i].published :
                             i \in 1..Len(r.new_images)}]
            /\ fullCycle' = [fullCycle EXCEPT ![f] =
                   /\ last_published[f] = None
                   /\ docOk
                   /\ AllHaveImage(catalog[f])
                   /\ r.failed = {}]
    /\ fpc' = [fpc EXCEPT ![f] = "assign"]
    /\ UNCHANGED <<catalog, wsOpen, last_published, sent, failedPrev,
                   lastDelivered, sendErr, changed, prevFull>>
    /\ UNCHANGED sessVars
    /\ UNCHANGED queueVars
    /\ UNCHANGED toolVars

\* mutant task: the watermark returned by fetch_new_images is dropped
FeedAssignKeep(f) ==
    /\ fpc[f] = "assign"
    /\ fpc' = [fpc EXCEPT ![f] =
                 IF Len(images[f]) > 0 THEN "send" ELSE "sleep"]
    /\ UNCHANGED <<catalog, wsOpen, last_published, updated_pub, images,
                   sent, feedOk, fetched, failed, failedPrev, processed,
                   lastDelivered, sendErr, changed, fullCycle, prevFull>>
    /\ UNCHANGED sessVars
    /\ UNCHANGED queueVars
    /\ UNCHANGED toolVars

\* run_feed_task: "last_published = updated_pub", then "if images:"
FeedAssign(f) ==
    /\ fpc[f] = "assign"
    /\ last_published' = [last_published EXCEPT ![f] = updated_pub[f]]
    /\ fpc' = [fpc EXCEPT ![f] =
                 IF Len(images[f]) > 0 THEN "send" ELSE "sleep"]
    /\ UNCHANGED <<catalog, wsOpen, updated_pub, images, sent, feedOk,
                   fetched, failed, failedPrev, processed, lastDelivered,
                   sendErr, changed, fullCycle, prevFull>>
    /\ UNCHANGED sessVars
    /\ UNCHANGED queueVars
    /\ UNCHANGED toolVars

\* the peer stops reading: the write buffer of the websocket stays full
ViewerStall ==
    /\ wsOpen
    /\ ~viewerStalled
    /\ viewerStalled' = TRUE
    /\ UNCHANGED <<catalog, wsOpen, fpc, last_published, updated_pub, images,
                   sent, feedOk, fetched, failed, failedPrev, processed,
                   lastDelivered, sendErr, changed, fullCycle, prevFull,
                   hpc, closedCycle, delivered>>
    /\ UNCHANGED queueVars
    /\ UNCHANGED toolVars

\* run_feed_task: the task calls "websocket.send(img)" of the for loop and
\* is suspended in it
FeedSendBegin(f) ==
    /\ fpc[f] = "send"
    /\ fpc' = [fpc EXCEPT ![f] = "sending"]
    /\ UNCHANGED <<catalog, wsOpen, last_published, updated_pub, images,
                   sent, feedOk, fetched, failed, failedPrev, processed,
                   lastDelivered, sendErr, changed, fullCycle, prevFull>>
    /\ UNCHANGED sessVars
    /\ UNCHANGED queueVars
    /\ UNCHANGED toolVars

\* run_feed_task: "await websocket.send(img)" returns or raises.  On a
\* closed connection it raises ConnectionClosed and the task ends; any
\* other exception ends the cycle; otherwise the image is delivered, which
\* takes a peer that reads.
FeedSend(f) ==
    /\ fpc[f] = "sending"
    /\ ~(wsOpen /\ viewerStalled)
    /\ IF wsOpen
       THEN \E ok \in BOOLEAN :
              IF ok
              THEN /\ sent' = [sent EXCEPT ![f] = @ + 1]
                   /\ lastDelivered' = [lastDelivered EXCEPT ![f] =
                          images[f][sent[f] + 1].published]
                   /\ fpc' = [fpc EXCEPT ![f] =
                          IF sent[f] + 1 < Len(images[f])
                          THEN "send" ELSE "sleep"]
                   /\ UNCHANGED sendErr
              ELSE /\ sendErr' = [sendErr EXCEPT ![f] = TRUE]
                   /\ fpc' = [fpc EXCEPT ![f] = "sleep"]
                   /\ UNCHANGED <<sent, lastDelivered>>
       ELSE /\ sendErr' = [sendErr EXCEPT ![f] = TRUE]
            /\ fpc' = [fpc EXCEPT ![f] = "done"]
            /\ UNCHANGED <<sent, lastDelivered>>
    /\ UNCHANGED <<catalog, wsOpen, last_published, updated_pub, images,
                   feedOk, fetched, failed, failedPrev, processed, changed,
                   fullCycle, prevFull>>
    /\ UNCHANGED sessVars
    /\ UNCHANGED queueVars
    /\ UNCHANGED toolVars

\* run_feed_task: "await asyncio.sleep(PER_FEED_DELAY)" is over.  The
\* results of the cycle are dead from here on (the next cycle overwrites
\* them before it reads them): the model clears them, and the history of
\* the cycle becomes the history of the cycle before (failedPrev: the
\* entries handed to fetch_image of which no image was obtained).
FeedSleepWake(f) ==
    /\ fpc[f] = "sleep"
    /\ fpc' = [fpc EXCEPT ![f] = "poll"]
    /\ images' = [images EXCEPT ![f] = <<>>]
    /\ updated_pub' = [updated_pub EXCEPT ![f] = None]
    /\ sent' = [sent EXCEPT ![f] = 0]
    /\ feedOk' = [feedOk EXCEPT ![f] = FALSE]
    /\ fetched' = [fetched EXCEPT ![f] = <<>>]
    /\ failed' = [failed EXCEPT ![f] = {}]
    /\ failedPrev' = [failedPrev EXCEPT ![f] =
                        {fetched[f][i] : i \in failed[f]}
                           \ {images[f][i] : i \in 1..Len(images[f])}]
    /\ fullCycle' = [fullCycle EXCEPT ![f] = FALSE]
    /\ prevFull' = [prevFull EXCEPT ![f] = fullCycle[f]]
    /\ sendErr' = [sendErr EXCEPT ![f] = FALSE]
    /\ changed' = [changed EXCEPT ![f] = FALSE]
    /\ closedCycle' = [closedCycle EXCEPT ![f] = ~wsOpen]
    /\ delivered' = [delivered EXCEPT ![f] =
                       @ \cup {images[f][i].published : i \in 1..sent[f]}]
    /\ UNCHANGED <<catalog, wsOpen, last_published, processed,
                   lastDelivered, hpc, viewerStalled>>
    /\ UNCHANGED queueVars
    /\ UNCHANGED toolVars

\* The watermark claims are about one feed at a time: a task shares only
\* the websocket with the tasks of the other feeds.
PolledFeeds == {1}

PollerNext ==
    \/ \E f \in PolledFeeds : CatalogPublish(f)
    \/ \E f \in PolledFeeds : CatalogRetire(f)
    \/ WsClose
    \/ \E f \in PolledFeeds : FeedFetchBegin(f)
    \/ \E f \in PolledFeeds : FeedFetch(f)
    \/ \E f \in PolledFeeds : FeedAssign(f)
    \/ \E f \in PolledFeeds : FeedSendBegin(f)
    \/ \E f \in PolledFeeds : FeedSend(f)
    \/ \E f \in PolledFeeds : FeedSleepWake(f)

\* no call of shift_channel is followed
ShiftOff ==
    /\ sh_pc = "off"
    /\ channel = <<>>
    /\ shift = 0
    /\ channel_shifted = <<>>

\* no call of the transform is followed
XfOff ==
    /\ xf_pc = "off"
    /\ via_pil = FALSE
    /\ img_mode = "RGB"
    /\ img = <<>>
    /\ luma_bandwidth = 1
    /\ chroma_bandwidth = 1
    /\ ghost_shift_pixels = 1
    /\ Y = <<>>
    /\ Cr = <<>>
    /\ Cb = <<>>
    /\ out_bgr = <<>>
    /\ np_random = 0
    /\ py_random = 0
    /\ run = 1
    /\ out_first = <<>>

\* the src attributes of the img tags: none, and URLs as their path
\* components, two of them with the same last component
DiskUrls == {<<>>, <<1, 7>>, <<2, 7>>, <<1, 8>>}

\* scraper_2 is not run
DiskOff ==
    /\ d_pc = "off"
    /\ d_pages_scraped = 0
    /\ d_next_page_url = PageUrl
    /\ history_size = 0
    /\ downloaded_urls = <<>>
    /\ tags_left = 0
    /\ files = {}
    /\ passed = [u \in DiskUrls |-> 0]

\* the crawler is not run
CrawlOff ==
    /\ c_pc = "off"
    /\ driver = FALSE
    /\ processed_images = {}
    /\ downloaded = {}
    /\ sessions = 0
    /\ cutoff_seen = FALSE

\* none of the functions followed on their own is running
InitTools == ShiftOff /\ XfOff /\ DiskOff /\ CrawlOff

Init == InitQueue /\ InitFeed /\ InitTools

QueueSpec == Init /\ [][QueueNext]_vars

\* one step of the scraper thread
ScraperStep ==
    \/ ScrapePageBegin
    \/ ScrapePageReturn
    \/ ScrapeImage
    \/ ScrapeNextPage

\* The scraper thread runs whenever it is not blocked in a call.
ScraperFairSpec == QueueSpec /\ WF_vars(ScraperStep)

\* one step of the coroutine image_sender of connection c
SenderStep(c) ==
    \/ SenderCheck(c)
    \/ SenderPop(c)
    \/ SenderSend(c)
    \/ SenderIdleWake(c)
    \/ SenderDelayWake(c)

\* The event loop resumes every coroutine that is ready: a send that
\* returns or raises and a sleep that is over are followed by the next
\* step of the sender, and the return of image_sender by the server's
\* closing of the connection.
QueueFairSpec ==
    /\ QueueSpec
    /\ \A c \in Conns : WF_vars(SenderStep(c))
    /\ \A c \in Conns : WF_vars(ServerClose(c))

PollerSpec == Init /\ [][PollerNext]_vars

\* The scraper thread has reached its last listing page, the pages before
\* it having offered no image: pages_scraped = max_pages - 1.
InitLastPage ==
    /\ SCRAPED_IMAGES = <<>>
    /\ srcCount = 0
    /\ spc = [c \in Conns |-> "none"]
    /\ img_data = [c \in Conns |-> <<>>]
    /\ connOpen = [c \in Conns |-> FALSE]
    /\ pushLog = <<>>
    /\ evicted = {}
    /\ popLog = <<>>
    /\ wsSent = [c \in Conns |-> <<>>]
    /\ scr = "page"
    /\ pages_scraped = MaxPages - 1
    /\ remoteHung = FALSE
    /\ next_page_url = PageUrl

\* The progress of the senders is followed from the last listing page on:
\* the scraper thread, which is not required to run, and the senders of
\* the connections, which the event loop resumes whenever they are ready.
DrainInit == InitLastPage /\ InitFeed /\ InitTools

DrainFairSpec ==
    /\ DrainInit
    /\ [][QueueNext]_vars
    /\ \A c \in Conns : WF_vars(SenderStep(c))
    /\ \A c \in Conns : WF_vars(ServerClose(c))

\* ------------------------------------------------------------------------
\* ImageCreator.py: image_sender, the tasks of one connection
\* ------------------------------------------------------------------------

\* the tasks that have returned
TasksDone == {f \in Feeds : fpc[f] = "done"}

\* a run_feed_task on which every ended task has ended by raising, as it
\* would without its handler of ConnectionClosed
TasksRaisedOnClose == {f \in Feeds : fpc[f] = "done"}

\* the tasks that have ended with an exception: run_feed_task handles
\* every Exception inside its loop, so none of the returned ones has
TasksRaised == {f \in TasksDone : FALSE}

\* FIRST_COMPLETED in place of FIRST_EXCEPTION
wait_returns_first_completed(done, raised) == done # {}

\* asyncio.wait(tasks, return_when=FIRST_EXCEPTION) returns when a task has
\* raised or when all tasks are done
wait_returns(done, raised) == raised # {} \/ done = Feeds

\* image_sender: asyncio.wait returns, "for task in pending: task.cancel()"
\* and the handler ends
HandlerWaitReturn ==
    /\ hpc = "wait"
    /\ wait_returns(TasksDone, TasksRaised)
    /\ hpc' = "done"
    /\ fpc' = [f \in Feeds |->
                 IF f \in TasksDone THEN fpc[f] ELSE "cancelled"]
    /\ UNCHANGED <<catalog, wsOpen, last_published, updated_pub, images,
                   sent, feedOk, fetched, failed, failedPrev, processed,
                   lastDelivered, sendErr, changed, fullCycle, prevFull,
                   viewerStalled, closedCycle, delivered>>
    /\ UNCHANGED queueVars
    /\ UNCHANGED toolVars

\* the feed documents of the session runs: none, or one entry with an image
SessionDocs == {<<>>, <<[published |-> <<2>>, url |-> <<97>>]>>}

SessionInit ==
    /\ InitQueue
    /\ catalog \in [Feeds -> SessionDocs]
    /\ InitTasks
    /\ InitTools

SessionNext ==
    \/ WsClose
    \/ ViewerStall
    \/ \E f \in Feeds : FeedFetchBegin(f)
    \/ \E f \in Feeds : FeedFetch(f)
    \/ \E f \in Feeds : FeedAssign(f)
    \/ \E f \in Feeds : FeedSendBegin(f)
    \/ \E f \in Feeds : FeedSend(f)
    \/ \E f \in Feeds : FeedSleepWake(f)
    \/ HandlerWaitReturn

SessionSpec == SessionInit /\ [][SessionNext]_vars

\* ------------------------------------------------------------------------
\* Properties of the delivery queue (scraper_3.py)
\* ------------------------------------------------------------------------

Min(a, b) == IF a < b THEN a ELSE b

\* the last n items of a sequence
LastN(s, n) == SubSeq(s, Len(s) - n + 1, Len(s))

\* the images of the pops, in the order of the pops
PoppedImages == [k \in 1..Len(popLog) |-> popLog[k][2]]

\* C1: as long as nothing was popped, after M appends the deque of capacity
\* N holds exactly the min(M, N) most recently appended images in append
\* order and the M - min(M, N) older ones are the evicted ones; the length
\* of the deque never exceeds N.
C1_DropOldest ==
    /\ Len(SCRAPED_IMAGES) <= QueueCap
    /\ popLog = <<>> =>
         LET M == Len(pushLog)
             K == Min(M, QueueCap)
         IN /\ SCRAPED_IMAGES = LastN(pushLog, K)
            /\ evicted = {pushLog[i] : i \in 1..(M - K)}

\* C1 witness: more appends than the capacity and no pop
C1_Witness ==
    /\ popLog = <<>>
    /\ Len(pushLog) > QueueCap
    /\ evicted # {}

\* C2: successive pops return the surviving images in the order they were
\* appended: every pop returns an image appended after the one of the pop
\* before it, and every image appended before it was popped earlier or
\* evicted; a sender that found the deque empty holds no image and is not
\* blocked (its sleep ends whatever the deque holds).
C2_FifoPops ==
    /\ \A k \in 1..Len(popLog) :
         /\ \E i \in 1..Len(pushLog) : pushLog[i] = PoppedImages[k]
         /\ \A j \in 1..(k - 1) : PoppedImages[j] < PoppedImages[k]
         /\ \A i \in 1..Len(pushLog) :
              pushLog[i] < PoppedImages[k] =>
                 \/ pushLog[i] \in evicted
                 \/ \E j \in 1..(k - 1) : PoppedImages[j] = pushLog[i]
    /\ \A c \in Conns :
         spc[c] = "idle" => img_data[c] = <<>> /\ ENABLED SenderIdleWake(c)

\* C2 witness: capacity-many survivors of three appends were popped in
\* order after an eviction, and a later attempt found the deque empty
C2_Witness ==
    /\ pushLog = <<1, 2, 3>>
    /\ evicted = {1}
    /\ PoppedImages = <<2, 3>>
    /\ SCRAPED_IMAGES = <<>>
    /\ \E c \in Conns : spc[c] = "idle"

\* ------------------------------------------------------------------------
\* Properties of the watermark (ImageCreator.py)
\* ------------------------------------------------------------------------

\* a <= b on watermarks: unset is lowest, strings compare as in Python
WmLeq(a, b) == a = None \/ (b # None /\ ~StrLess(b, a))

\* the largest timestamp of a set, None for the empty set
MaxTs(S) ==
    IF S = {} THEN None
    ELSE CHOOSE t \in S : \A u \in S : ~StrLess(t, u)

\* the elements of a sequence
Elems(s) == {s[i] : i \in 1..Len(s)}

\* the timestamps of a sequence of entries
Stamps(s) == {s[i].published : i \in 1..Len(s)}

\* how often e occurs in s
Count(s, e) == Cardinality({i \in 1..Len(s) : s[i] = e})

\* the timestamps of s do not decrease
Ascending(s) ==
    \A i, j \in 1..Len(s) : i < j => ~StrLess(s[j].published, s[i].published)

\* C3: no step of a feed task lowers its watermark, unset being lowest:
\* across cycles with a failed document, failed images and failed sends.
C3_WatermarkMonotone ==
    [][\A f \in Feeds : WmLeq(last_published[f], last_published'[f])]_vars

\* C3 witness: a cycle over a readable document that selected nothing has
\* ended and the watermark set earlier is still there
C3_Witness ==
    \E f \in Feeds :
       /\ fpc[f] = "sleep"
       /\ feedOk[f]
       /\ catalog[f] # <<>>
       /\ fetched[f] = <<>>
       /\ last_published[f] \in Timestamps

\* C4: between cycles the watermark of a feed is the largest timestamp
\* of all images ever produced for the feed, and unset if there is none;
\* when fetch_new_images returns, its second result is that timestamp.
C4_WatermarkIsMaxProcessed ==
    \A f \in Feeds :
       /\ fpc[f] \in {"poll", "fetching", "send", "sending", "sleep",
                    "done"} =>
             last_published[f] = MaxTs(processed[f])
       /\ fpc[f] = "assign" => updated_pub[f] = MaxTs(processed[f])

\* C4 witness: images of two different timestamps were produced, and in
\* the last cycle an image failed
C4_Witness ==
    \E f \in Feeds :
       /\ fpc[f] = "sleep"
       /\ Cardinality(processed[f]) >= 2
       /\ failed[f] # {}

\* C5: at the end of a cycle the watermark of a feed is the timestamp of
\* the last image delivered on the connection (it is not ahead of it).
C5_WatermarkIsLastDelivered ==
    \A f \in Feeds :
       fpc[f] = "sleep" => last_published[f] = lastDelivered[f]

\* C6: fetch_image is called only for entries whose timestamp is strictly
\* larger than the watermark the cycle started with (any entry when it is
\* unset), and only such images are returned for sending.
C6_OnlyNewerSelected ==
    \A f \in Feeds :
       fpc[f] = "assign" =>
          /\ \A i \in 1..Len(fetched[f]) :
                \/ last_published[f] = None
                \/ StrLess(last_published[f], fetched[f][i].published)
          /\ Elems(images[f]) \subseteq Elems(fetched[f])

\* C6 witness: a cycle fetched an entry while the document also lists an
\* entry with an image whose timestamp equals the watermark
C6_Witness ==
    \E f \in Feeds :
       /\ fpc[f] = "assign"
       /\ last_published[f] \in Timestamps
       /\ fetched[f] # <<>>
       /\ \E i \in 1..Len(catalog[f]) :
             /\ catalog[f][i].published = last_published[f]
             /\ has_img_url(catalog[f][i].url)

\* C7: a cycle that starts with the watermark unset, over a document whose
\* entries all have an image that is fetched, returns the image of every
\* entry in ascending timestamp order and leaves the watermark at the
\* largest timestamp; the next cycle over the unchanged document fetches
\* nothing and leaves the watermark as it is.
C7_AllThenNone ==
    \A f \in Feeds :
       /\ (fpc[f] = "assign" /\ fullCycle[f]) =>
             /\ Len(images[f]) = Len(catalog[f])
             /\ \A e \in Entries : Count(images[f], e) = Count(catalog[f], e)
             /\ Ascending(images[f])
             /\ updated_pub[f] = MaxTs(Stamps(catalog[f]))
       /\ (fpc[f] \in {"send", "sending", "sleep"} /\ fullCycle[f]) =>
             last_published[f] = MaxTs(Stamps(catalog[f]))
       /\ (fpc[f] \in {"assign", "send", "sending", "sleep"}
              /\ prevFull[f] /\ ~changed[f]) =>
             /\ fetched[f] = <<>>
             /\ images[f] = <<>>
             /\ fpc[f] = "assign" => updated_pub[f] = last_published[f]
             /\ last_published[f] = MaxTs(Stamps(catalog[f]))

\* C7 witness: the second cycle over an unchanged document of two entries
\* listed in descending order, after a first cycle that took them all
C7_Witness ==
    \E f \in Feeds :
       /\ fpc[f] = "sleep"
       /\ prevFull[f]
       /\ ~changed[f]
       /\ feedOk[f]
       /\ Len(catalog[f]) >= 2
       /\ StrLess(catalog[f][2].published, catalog[f][1].published)

\* C8: the timestamps of the images a feed task delivers never decrease
\* over the whole session.
C8_DeliveryOrder ==
    [][\A f \in Feeds : WmLeq(lastDelivered[f], lastDelivered'[f])]_vars

\* C8 witness: an image is delivered in a cycle after a cycle in which an
\* image of another timestamp was produced and an image failed
C8_Witness ==
    \E f \in Feeds :
       /\ sent[f] >= 1
       /\ failedPrev[f] # {}
       /\ \E t \in processed[f] : t \notin Stamps(images[f])

\* C9: a failed fetch_image does not end the cycle and does not move the
\* watermark: every selected entry is handed to fetch_image, in order; the
\* images returned are those of the entries that did not fail; the new
\* watermark is the largest of the old one and the timestamps of those
\* images; and every returned image is sent unless a send raises.
C9_FailureSkipsItem ==
    \A f \in Feeds :
       /\ (fpc[f] = "assign" /\ feedOk[f]) =>
             LET doc == sorted_entries(catalog[f])
                 sel == SelectSeq(doc, LAMBDA e :
                           /\ has_img_url(e.url)
                           /\ \/ last_published[f] = None
                              \/ StrLess(last_published[f], e.published))
                 okIdx == {i \in 1..Len(fetched[f]) : i \notin failed[f]}
             IN /\ fetched[f] = sel
                /\ Len(images[f]) = Cardinality(okIdx)
                /\ \A i \in okIdx :
                      images[f][Cardinality({j \in okIdx : j <= i})]
                         = fetched[f][i]
                /\ updated_pub[f] =
                      MaxTs((Stamps(images[f]) \cup {last_published[f]})
                               \ {None})
       /\ (fpc[f] = "sleep" /\ ~sendErr[f]) => sent[f] = Len(images[f])

\* C9 witness: the first selected entry failed and the image of a later
\* one was delivered in the same cycle
C9_Witness ==
    \E f \in Feeds :
       /\ fpc[f] = "sleep"
       /\ 1 \in failed[f]
       /\ Len(fetched[f]) >= 2
       /\ sent[f] >= 1

\* C10: an entry whose fetch_image failed in a cycle is handed to
\* fetch_image again in the next cycle if the document still lists it.
C10_FailedRetried ==
    \A f \in Feeds :
       (fpc[f] = "assign" /\ feedOk[f]) =>
          \A e \in failedPrev[f] :
             e \in Elems(catalog[f]) => e \in Elems(fetched[f])

\* ------------------------------------------------------------------------
\* Failures of a cycle (ImageCreator.py)
\* ------------------------------------------------------------------------

\* C11: a cycle whose feed document could not be fetched produces no image
\* and hands back the watermark it was given; the task then keeps the
\* watermark, sends nothing, sleeps and starts its next cycle: it does not
\* end.
C11_CatalogFailureSkipsCycle ==
    [][\A f \in Feeds :
         /\ (fpc[f] = "fetching" /\ fpc'[f] = "assign" /\ ~feedOk'[f]) =>
               /\ images'[f] = <<>>
               /\ updated_pub'[f] = last_published[f]
         /\ (fpc[f] = "assign" /\ ~feedOk[f] /\ fpc'[f] # "assign") =>
               /\ fpc'[f] = "sleep"
               /\ last_published'[f] = last_published[f]
               /\ sent'[f] = 0
               /\ lastDelivered'[f] = lastDelivered[f]
         /\ (fpc[f] = "sleep" /\ ~feedOk[f] /\ fpc'[f] # "sleep") =>
               /\ fpc'[f] = "poll"
               /\ last_published'[f] = last_published[f]
               /\ lastDelivered'[f] = lastDelivered[f]]_vars

\* C11 witness: the task begins its next cycle after a cycle in which the
\* document of a feed with entries could not be fetched, with the
\* watermark an earlier cycle has set
C11_Witness ==
    \E f \in Feeds :
       /\ fpc[f] = "sleep"
       /\ ~feedOk[f]
       /\ catalog[f] # <<>>
       /\ last_published[f] # None
       /\ ENABLED FeedSleepWake(f)

\* C12: an entry without a timestamp is selected in every cycle: whenever
\* the document was fetched, each of its entries that has an image URL and
\* no timestamp was handed to fetch_image, whatever the watermark.
C12_MissingTimestampAlwaysNew ==
    \A f \in Feeds :
       (fpc[f] = "assign" /\ feedOk[f]) =>
          \A i \in 1..Len(catalog[f]) :
             (/\ catalog[f][i].published = <<>>
              /\ has_img_url(extract_image_url_from_entry(catalog[f][i]))) =>
                \E k \in 1..Len(fetched[f]) : fetched[f][k] = catalog[f][i]

\* ------------------------------------------------------------------------
\* The tasks of one connection (ImageCreator.py)
\* ------------------------------------------------------------------------

\* C13: on the connection at most one send of an image is in progress: no
\* two tasks are suspended in "await websocket.send(img)" at once.
C13_OneSendAtATime ==
    Cardinality({f \in Feeds : fpc[f] = "sending"}) <= 1

\* C14: a task that has begun a cycle on the closed connection stops in
\* that cycle: it does not wake from the sleep of that cycle into another
\* cycle.
C14_PollersStopAfterClose ==
    [][\A f \in Feeds :
         (closedCycle[f] /\ ~wsOpen /\ fpc[f] = "sleep") =>
            fpc'[f] # "poll"]_vars

\* ------------------------------------------------------------------------
\* The sender and its connection (scraper_3.py)
\* ------------------------------------------------------------------------

\* C15: once the connection of a sender is closed, the sender eventually
\* terminates, with images in the deque or without.
C15_SenderTerminates ==
    \A c \in Conns :
       (spc[c] # "none" /\ ~connOpen[c]) ~> (spc[c] = "done")

\* C16: a deque is drained by the sender of one connection only: all the
\* images ever removed from SCRAPED_IMAGES were removed by the same sender.
C16_OneSenderPerQueue ==
    \A i, j \in 1..Len(popLog) : popLog[i][1] = popLog[j][1]

\* the images the sender of connection c removed from the deque, in order
PopsOf(c) ==
    LET mine == SelectSeq(popLog, LAMBDA p : p[1] = c)
    IN [k \in 1..Len(mine) |-> mine[k][2]]

\* the sequence without its last element
Front(q) == SubSeq(q, 1, Len(q) - 1)

\* C17 as stated: every image a sender has removed from the deque is
\* delivered on its connection as soon as the send of it is over.
C17_PoppedIsDelivered ==
    \A c \in Conns : spc[c] # "send" => wsSent[c] = PopsOf(c)

\* C17: a sender hands every image it removes to websocket.send at once
\* and, in the order of removal, delivers them all, but for the image of a
\* send that raised: that send ends the sender, so a sender loses at most
\* the last image it removed and goes on past none.
C17_PoppedIsDeliveredOrSenderEnds ==
    \A c \in Conns :
       /\ spc[c] = "send" =>
             /\ PopsOf(c) # <<>>
             /\ wsSent[c] = Front(PopsOf(c))
             /\ img_data[c] = <<PopsOf(c)[Len(PopsOf(c))]>>
       /\ spc[c] \in {"none", "check", "pop", "idle", "delay"} =>
             wsSent[c] = PopsOf(c)
       /\ spc[c] = "done" =>
             \/ wsSent[c] = PopsOf(c)
             \/ PopsOf(c) # <<>> /\ wsSent[c] = Front(PopsOf(c))

\* C17 witness: a sender has delivered an image, removed another one and
\* ended in the send of it
C17_Witness ==
    \E c \in Conns :
       /\ spc[c] = "done"
       /\ Len(wsSent[c]) >= 1
       /\ Len(PopsOf(c)) = Len(wsSent[c]) + 1

\* ------------------------------------------------------------------------
\* Isolation of the producers
\* ------------------------------------------------------------------------

\* C18: the hand-over of an image by its producer is never held up by the
\* consumer: while the connection is open, a task that is handing an image
\* over can complete the hand-over, whether the peer reads or not.
C18_HandOverNeverStalls ==
    \A f \in Feeds :
       (fpc[f] = "sending" /\ wsOpen) => ENABLED FeedSend(f)

\* C19: a task ends only by its own send on the closed connection: no
\* failure of another task (document, image or send) and no step of the
\* handler ends or cancels a task that has not ended by itself, and no
\* step of a task moves another task.
C19_ErrorsStayInTheirTask ==
    [][/\ \A f \in Feeds :
            (fpc[f] \notin {"done", "cancelled"}
                /\ fpc'[f] \in {"done", "cancelled"}) =>
               /\ fpc[f] = "sending"
               /\ ~wsOpen
               /\ fpc'[f] = "done"
       /\ \A f, g \in Feeds :
            (f # g /\ fpc'[g] # fpc[g]) =>
               /\ fpc'[f] = fpc[f]
               /\ last_published'[f] = last_published[f]
               /\ images'[f] = images[f]
               /\ sent'[f] = sent[f]]_vars

\* C19 witness: a task has ended in a send that raised on the closed
\* connection; another task, whose document could not be fetched in a
\* cycle begun after the close, is about to start its next cycle while the
\* handler still waits
C19_Witness ==
    \E f, g \in Feeds :
       /\ f # g
       /\ fpc[g] = "done"
       /\ sendErr[g]
       /\ hpc = "wait"
       /\ closedCycle[f]
       /\ fpc[f] = "sleep"
       /\ ~feedOk[f]
       /\ ENABLED FeedSleepWake(f)

\* C20: a request to a remote site that hangs is given up after a bounded
\* time: whenever the scraper waits for a page, the wait can end.
C20_HungFetchTimesOut ==
    scr = "pageget" => ENABLED ScrapePageReturn

\* ------------------------------------------------------------------------
\* The senders and the scraper thread on the deque (scraper_3.py)
\* ------------------------------------------------------------------------

\* C29: every popleft of a sender runs on a deque that is not empty,
\* whatever the scraper thread appends (evicting or not) and whatever the
\* senders of the other connections do: a sender that has found the deque
\* not empty finds it so at its popleft, and its popleft removes an image.
C29_PopleftOnNonEmpty ==
    [][\A c \in Conns :
         /\ spc[c] = "pop" => Len(SCRAPED_IMAGES) > 0
         /\ (spc[c] = "pop" /\ spc'[c] # "pop") =>
               /\ spc'[c] = "send"
               /\ Len(popLog') = Len(popLog) + 1]_vars

\* C29 witness: the senders of two connections and the scraper: one
\* sender is about to popleft the only image left, after pops by both
\* senders, while the other waits at its test
C29_Witness ==
    /\ Len(SCRAPED_IMAGES) = 1
    /\ \E c, d \in Conns :
         /\ c # d
         /\ spc[c] = "pop"
         /\ spc[d] = "check"
         /\ PopsOf(c) # <<>>
         /\ PopsOf(d) # <<>>

\* ------------------------------------------------------------------------
\* The handler and its tasks (ImageCreator.py)
\* ------------------------------------------------------------------------

\* C30: no feed task ends by raising, so the wait of the handler returns
\* only when every task has ended by itself; the cancel loop finds no
\* pending task and no running task is ever cancelled.
C30_WaitReturnsWhenAllEnded ==
    /\ \A f \in Feeds : fpc[f] # "cancelled"
    /\ hpc = "done" => \A f \in Feeds : fpc[f] = "done"

\* C30 witness: the handler has returned from its wait
C30_Witness ==
    /\ hpc = "done"
    /\ \A f \in Feeds : sendErr[f]

\* ------------------------------------------------------------------------
\* The page loop of scrape_subreddit_images
\* ------------------------------------------------------------------------

\* C24: a run requests a listing page only while it has requested fewer
\* than max_pages of them, and the run terminates.
C24_ScraperTerminates ==
    /\ [](scr = "pageget" => pages_scraped < MaxPages)
    /\ <>(scr = "done")

\* ------------------------------------------------------------------------
\* Progress of the senders (scraper_3.py)
\* ------------------------------------------------------------------------

\* the image i is the next one to be removed from the deque
AtHead(i) == Len(SCRAPED_IMAGES) > 0 /\ Head(SCRAPED_IMAGES) = i

\* some connection is open
SomeConnOpen == \E c \in Conns : connOpen[c]

\* the image i was sent on a connection
Delivered(i) ==
    \E c \in Conns : \E k \in 1..Len(wsSent[c]) : wsSent[c][k] = i

\* the image i was removed by a sender that ended in the send of it
LostBySend(i) ==
    \E c \in Conns :
       /\ spc[c] = "done"
       /\ \E k \in 1..Len(popLog) : popLog[k] = <<c, i>>
       /\ \A k \in 1..Len(wsSent[c]) : wsSent[c][k] # i

ReachedHead(i) ==
    /\ \E k \in 1..Len(pushLog) : pushLog[k] = i
    /\ \A k \in 2..Len(SCRAPED_IMAGES) : SCRAPED_IMAGES[k] # i

\* the image i was sent, was evicted, or was lost in a send that raised
Settled(i) == Delivered(i) \/ i \in evicted \/ LostBySend(i)

Max(a, b) == IF a > b THEN a ELSE b

\* the samples of a channel
Samples == {1, 2}

\* the h x w arrays of samples, as lists of rows
Planes(h, w) == [1..h -> [1..w -> Samples]]

\* numpy: the position a slice bound i denotes in an axis of length n
SliceBound(n, i) == IF i < 0 THEN Max(n + i, 0) ELSE Min(i, n)

\* numpy: the columns (from 1) that the slice [start:stop] selects in an
\* axis of length n
SliceCols(n, start, stop) ==
    LET a == SliceBound(n, start)
        b == SliceBound(n, stop)
    IN [k \in 1..Max(b - a, 0) |-> a + k]

\* np.zeros_like(channel)
zeros_like(ch) == [r \in 1..Len(ch) |-> [c \in 1..Len(ch[r]) |-> 0]]

\* numpy: "dest[:, dcols] = src[:, scols]" raises ValueError unless the
\* source has as many columns as the destination, or exactly one column
\* (which is then repeated)
CanAssignCols(dcols, scols) ==
    Len(scols) = Len(dcols) \/ Len(scols) = 1

\* numpy: dest after "dest[:, dcols] = src[:, scols]"
AssignCols(dest, dcols, src, scols) ==
    [r \in 1..Len(dest) |->
       [c \in 1..Len(dest[r]) |->
          IF \E k \in 1..Len(dcols) : dcols[k] = c
          THEN LET k == CHOOSE k \in 1..Len(dcols) : dcols[k] = c
               IN src[r][scols[IF Len(scols) = 1 THEN 1 ELSE k]]
          ELSE dest[r][c]]]

\* shift_channel(channel, shift): the record of whether it raised and of
\* what it returned.  "channel[:, :-shift]" with shift = 0 is
\* "channel[:, :0]", the slice without columns.
shift_channel(ch, sh) ==
    LET w == IF Len(ch) = 0 THEN 0 ELSE Len(ch[1])
        dcols == IF sh >= 0 THEN SliceCols(w, sh, w)
                            ELSE SliceCols(w, 0, sh)
        scols == IF sh >= 0 THEN SliceCols(w, 0, -sh)
                            ELSE SliceCols(w, -sh, w)
    IN IF CanAssignCols(dcols, scols)
       THEN [raised |-> FALSE,
             value |-> AssignCols(zeros_like(ch), dcols, ch, scols)]
       ELSE [raised |-> TRUE, value |-> <<>>]

\* a call of shift_channel on some channel with some shift
ShiftInit ==
    /\ InitQueue
    /\ InitFeed
    /\ sh_pc = "call"
    /\ \E h \in 1..MaxH, w \in 1..MaxW : channel \in Planes(h, w)
    /\ shift \in -MaxShift..MaxShift
    /\ channel_shifted = <<>>
    /\ XfOff
    /\ DiskOff
    /\ CrawlOff

\* the call returns its result or raises
ShiftCall ==
    /\ sh_pc = "call"
    /\ LET res == shift_channel(channel, shift)
       IN /\ sh_pc' = IF res.raised THEN "raised" ELSE "returned"
          /\ channel_shifted' = res.value
    /\ UNCHANGED <<channel, shift>>
    /\ UNCHANGED xfVars
    /\ UNCHANGED diskVars
    /\ UNCHANGED crawlVars
    /\ UNCHANGED queueVars
    /\ UNCHANGED feedVars

ShiftNext == ShiftCall

ShiftSpec == ShiftInit /\ [][ShiftNext]_vars

\* C27: for every integer shift s, 0 and the shifts of magnitude at least
\* the width included, shift_channel returns (it does not raise) a channel
\* of the shape of its argument whose column c holds column c - s of the
\* argument where that exists and zero elsewhere.
C27_ShiftMovesColumns ==
    sh_pc \in {"returned", "raised"} =>
       /\ sh_pc = "returned"
       /\ Len(channel_shifted) = Len(channel)
       /\ \A r \in 1..Len(channel) :
             /\ Len(channel_shifted[r]) = Len(channel[r])
             /\ \A c \in 1..Len(channel[r]) :
                   channel_shifted[r][c] =
                      IF c - shift \in 1..Len(channel[r])
                      THEN channel[r][c - shift] ELSE 0

\* ------------------------------------------------------------------------
\* scraper_3.py: apply_vhs_filter_pil and apply_better_vhs_effect
\* ------------------------------------------------------------------------

\* the defaults of luma_noise_level and chroma_noise_level
luma_noise_level == 10
chroma_noise_level == 20

\* the parameters apply_vhs_filter_pil passes
pil_luma_bandwidth == 5
pil_chroma_bandwidth == 8
pil_ghost_shift_pixels == 3

\* The float32 planes hold fractions: a sample of a float plane is counted
\* in units of 1 / Unit.  With the bandwidths 1, 2, 5 and 8 and
\* ghost_strength = 3 / 10 every sample is a whole number of units.
Unit == 200

\* "P.astype(np.float32)" of a plane of uint8 samples
astype_float32(pl) ==
    [r \in 1..Len(pl) |-> [c \in 1..Len(pl[r]) |-> pl[r][c] * Unit]]

\* "P.astype(np.uint8)" of a float plane with samples in 0..255: the
\* fraction is cut off
astype_uint8(pl) ==
    [r \in 1..Len(pl) |-> [c \in 1..Len(pl[r]) |-> pl[r][c] \div Unit]]

\* the number of states of a global random generator
RngMod == 4

\* the modes of a PIL image and their numbers of bands
Modes == {"L", "RGB", "RGBA"}

Bands(mode) == IF mode = "L" THEN 1 ELSE IF mode = "RGB" THEN 3 ELSE 4

\* the width of a plane
Width(pl) == IF Len(pl) = 0 THEN 0 ELSE Len(pl[1])

\* the h x w plane of one sample
Flat(h, w, v) == [r \in 1..h |-> [c \in 1..w |-> v]]

\* the grey h x w images: black, white, and black with a white right part
GreyImages(h, w) ==
    {Flat(h, w, 0), Flat(h, w, 255),
     [r \in 1..h |-> [c \in 1..w |-> IF 2 * c > w THEN 255 ELSE 0]]}

RECURSIVE SeqSum(_)
SeqSum(q) == IF q = <<>> THEN 0 ELSE Head(q) + SeqSum(Tail(q))

\* np.convolve(a, np.ones(n) / n, mode='same'): the middle max(M, n)
\* values of the full convolution.  The samples are in units, of which n
\* divides every sum.
convolve_same(a, n) ==
    LET M == Len(a)
        small == Min(M, n)
        off == (small - 1) - (small \div 2)
    IN [k \in 1..Max(M, n) |->
          SeqSum(SubSeq(a, Max(1, k + off - n + 1), Min(M, k + off)))
             \div n]

\* "P[row_idx, :] = np.convolve(P[row_idx, :], kernel, mode='same')" for
\* every row, if bandwidth > 1: the assignment raises ValueError unless
\* the result has the length of the row, or the length 1
blur_rows(pl, bandwidth) ==
    IF bandwidth <= 1 \/ Len(pl) = 0
    THEN [raised |-> FALSE, value |-> pl]
    ELSE LET w == Width(pl)
             L == Max(w, bandwidth)
         IN IF L # w /\ L # 1
            THEN [raised |-> TRUE, value |-> pl]
            ELSE [raised |-> FALSE,
                  value |-> [r \in 1..Len(pl) |->
                               convolve_same(pl[r], bandwidth)]]

\* cv2: BORDER_REFLECT_101 of the position i (from 1) in an axis of
\* length n
Reflect101(i, n) ==
    IF n = 1 THEN 1
    ELSE IF i < 1 THEN 2 - i
    ELSE IF i > n THEN 2 * n - i
    ELSE i

\* np.absolute(cv2.Sobel(pl, cv2.CV_32F, 1, 0, ksize=3))
sobel_x_abs(pl) ==
    LET h == Len(pl)
        w == Width(pl)
        at(r, c) == pl[Reflect101(r, h)][Reflect101(c, w)]
        dx(r, c) == at(r, c + 1) - at(r, c - 1)
        g(r, c) == dx(r - 1, c) + 2 * dx(r, c) + dx(r + 1, c)
    IN [r \in 1..h |-> [c \in 1..w |->
          IF g(r, c) < 0 THEN -g(r, c) ELSE g(r, c)]]

\* cv2.addWeighted(P, 1.0, ghost, ghost_strength = 0.3, 0), in units
add_ghost(pl, ghost) ==
    [r \in 1..Len(pl) |-> [c \in 1..Len(pl[r]) |->
        pl[r][c] + (3 * ghost[r][c]) \div 10]]

\* a sample of np.random.normal(0, level) drawn in the generator state
\* st, in units
NormalSample(st, level) ==
    IF st % RngMod = 0 THEN -level * Unit
    ELSE IF st % RngMod = RngMod - 1 THEN level * Unit
    ELSE 0

\* P + np.random.normal(0, level, P.shape), drawn from the state st on:
\* each sample advances the generator by one state
add_noise(pl, st, level) ==
    [r \in 1..Len(pl) |-> [c \in 1..Len(pl[r]) |->
        pl[r][c] + NormalSample(st + (r - 1) * Len(pl[r]) + c - 1, level)]]

\* int(x) of the quotient a / b, b > 0: rounds toward zero
Trunc(a, b) == IF a >= 0 THEN a \div b ELSE -((-a) \div b)

\* int(line_glitch_strength * (random.random() - 0.5) * w) with the
\* strength 0.8 and random.random() = st / RngMod
glitch_offset(st, w) == Trunc(8 * (2 * st - RngMod) * w, 20 * RngMod)

\* np.roll(row, k)
roll(row, k) ==
    [c \in 1..Len(row) |-> row[((c - 1 - k) % Len(row)) + 1]]

\* The loop of the glitch lines from the row r on: a row is rolled when
\* its draw of random.random() falls under line_glitch_probability (here:
\* when the generator is in state 0), by an offset from a second draw.
\* acc holds the planes and the state of the generator.
RECURSIVE GlitchLoop(_, _)
GlitchLoop(r, acc) ==
    IF r > Len(acc.Y) THEN acc
    ELSE LET st1 == (acc.st + 1) % RngMod
             st2 == (acc.st + 2) % RngMod
             k == glitch_offset(st1, Len(acc.Y[r]))
         IN IF acc.st = 0
            THEN GlitchLoop(r + 1,
                   [Y |-> [acc.Y EXCEPT ![r] = roll(@, k)],
                    Cr |-> [acc.Cr EXCEPT ![r] = roll(@, k)],
                    Cb |-> [acc.Cb EXCEPT ![r] = roll(@, k)],
                    st |-> st2])
            ELSE GlitchLoop(r + 1, [acc EXCEPT !.st = st1])

\* np.clip(P, 0, 255), in units
clip(pl) ==
    [r \in 1..Len(pl) |-> [c \in 1..Len(pl[r]) |->
        Max(0, Min(255 * Unit, pl[r][c]))]]

\* OpenCV's CV_DESCALE(x, 14): x / 2^14 rounded to the nearest integer,
\* a half upwards
RoundDiv(x) == (x + 8192) \div 16384

\* cv2.cvtColor(ycrcb, cv2.COLOR_YCrCb2BGR) on uint8 planes, in OpenCV's
\* fixed-point arithmetic (the factors 1.773, -0.344, -0.714 and 1.403
\* times 2^14): the planes <<B, G, R>>, each sample saturated to 0..255
ycrcb_to_bgr(y, cr, cb) ==
    LET sat(v) == Max(0, Min(255, v))
        B == [r \in 1..Len(y) |-> [c \in 1..Len(y[r]) |->
                sat(y[r][c] + RoundDiv(29049 * (cb[r][c] - 128)))]]
        G == [r \in 1..Len(y) |-> [c \in 1..Len(y[r]) |->
                sat(y[r][c] + RoundDiv(-5636 * (cb[r][c] - 128)
                                       - 11698 * (cr[r][c] - 128)))]]
        R == [r \in 1..Len(y) |-> [c \in 1..Len(y[r]) |->
                sat(y[r][c] + RoundDiv(22987 * (cr[r][c] - 128)))]]
    IN <<B, G, R>>

\* the widths of the images passed to apply_vhs_filter_pil: narrower than
\* the bandwidths it passes, and as wide as the larger of them
PilWidths == {1, pil_chroma_bandwidth}

\* Either apply_vhs_filter_pil is called on some grey image of some mode,
\* and passes its parameters to apply_better_vhs_effect; or
\* apply_better_vhs_effect is called on some grey BGR frame with some
\* parameters.  The global generators are in some state.
XfInit ==
    /\ InitQueue
    /\ InitFeed
    /\ ShiftOff
    /\ DiskOff
    /\ CrawlOff
    /\ xf_pc = "convert"
    /\ via_pil \in BOOLEAN
    /\ IF via_pil
       THEN /\ img_mode \in Modes
            /\ \E h \in 1..MaxH, w \in PilWidths : img \in GreyImages(h, w)
            /\ luma_bandwidth = pil_luma_bandwidth
            /\ chroma_bandwidth = pil_chroma_bandwidth
            /\ ghost_shift_pixels = pil_ghost_shift_pixels
       ELSE /\ img_mode = "RGB"
            /\ \E h \in 1..MaxH, w \in 1..MaxW : img \in GreyImages(h, w)
            /\ luma_bandwidth \in {1, 2}
            /\ chroma_bandwidth \in {1, 2}
            /\ ghost_shift_pixels \in {0, 1, MaxShift}
    /\ Y = <<>>
    /\ Cr = <<>>
    /\ Cb = <<>>
    /\ out_bgr = <<>>
    /\ np_random \in 0..(RngMod - 1)
    /\ py_random \in 0..(RngMod - 1)
    /\ run = 1
    /\ out_first = <<>>

\* apply_vhs_filter_pil: img.convert("RGB") and the BGR view;
\* apply_better_vhs_effect: cvtColor to YCrCb, astype(np.float32) and
\* split.  A grey pixel (v, v, v) has Y = v and Cr = Cb = 128.
XfConvert ==
    /\ xf_pc = "convert"
    /\ Y' = astype_float32(img)
    /\ Cr' = astype_float32(Flat(Len(img), Width(img), 128))
    /\ Cb' = astype_float32(Flat(Len(img), Width(img), 128))
    /\ xf_pc' = "bandwidth"
    /\ UNCHANGED <<via_pil, img_mode, img, luma_bandwidth, chroma_bandwidth,
                   ghost_shift_pixels, out_bgr, np_random, py_random, run,
                   out_first>>
    /\ UNCHANGED shiftVars
    /\ UNCHANGED diskVars
    /\ UNCHANGED crawlVars
    /\ UNCHANGED queueVars
    /\ UNCHANGED feedVars

\* apply_better_vhs_effect: the luma and the chroma bandwidth
XfBandwidth ==
    /\ xf_pc = "bandwidth"
    /\ LET yb == blur_rows(Y, luma_bandwidth)
           crb == blur_rows(Cr, chroma_bandwidth)
           cbb == blur_rows(Cb, chroma_bandwidth)
       IN IF yb.raised \/ crb.raised \/ cbb.raised
          THEN /\ xf_pc' = "raised"
               /\ UNCHANGED <<Y, Cr, Cb>>
          ELSE /\ xf_pc' = "ghost"
               /\ Y' = yb.value
               /\ Cr' = crb.value
               /\ Cb' = cbb.value
    /\ UNCHANGED <<via_pil, img_mode, img, luma_bandwidth, chroma_bandwidth,
                   ghost_shift_pixels, out_bgr, np_random, py_random, run,
                   out_first>>
    /\ UNCHANGED shiftVars
    /\ UNCHANGED diskVars
    /\ UNCHANGED crawlVars
    /\ UNCHANGED queueVars
    /\ UNCHANGED feedVars

\* apply_better_vhs_effect: the colour offset (Cr by 2, Cb by -2) and the
\* ghost (the gradient of Y shifted by ghost_shift_pixels, added to Y)
XfGhost ==
    /\ xf_pc = "ghost"
    /\ LET crs == shift_channel(Cr, 2)
           cbs == shift_channel(Cb, -2)
           ghost == shift_channel(sobel_x_abs(Y), ghost_shift_pixels)
       IN IF crs.raised \/ cbs.raised \/ ghost.raised
          THEN /\ xf_pc' = "raised"
               /\ UNCHANGED <<Y, Cr, Cb>>
          ELSE /\ xf_pc' = "noise"
               /\ Cr' = crs.value
               /\ Cb' = cbs.value
               /\ Y' = add_ghost(Y, ghost.value)
    /\ UNCHANGED <<via_pil, img_mode, img, luma_bandwidth, chroma_bandwidth,
                   ghost_shift_pixels, out_bgr, np_random, py_random, run,
                   out_first>>
    /\ UNCHANGED shiftVars
    /\ UNCHANGED diskVars
    /\ UNCHANGED crawlVars
    /\ UNCHANGED queueVars
    /\ UNCHANGED feedVars

\* apply_better_vhs_effect: the noise, drawn from the global generator of
\* np.random, and the glitch lines, drawn from the global generator of
\* random
XfNoise ==
    /\ xf_pc = "noise"
    /\ LET n == Len(Y) * Width(Y)
           g == GlitchLoop(1,
                  [Y |-> add_noise(Y, np_random, luma_noise_level),
                   Cr |-> add_noise(Cr, np_random + n, chroma_noise_level),
                   Cb |-> add_noise(Cb, np_random + 2 * n,
                                    chroma_noise_level),
                   st |-> py_random])
       IN /\ Y' = g.Y
          /\ Cr' = g.Cr
          /\ Cb' = g.Cb
          /\ py_random' = g.st
          /\ np_random' = (np_random + 3 * n) % RngMod
    /\ xf_pc' = "reconvert"
    /\ UNCHANGED <<via_pil, img_mode, img, luma_bandwidth, chroma_bandwidth,
                   ghost_shift_pixels, out_bgr, run, out_first>>
    /\ UNCHANGED shiftVars
    /\ UNCHANGED diskVars
    /\ UNCHANGED crawlVars
    /\ UNCHANGED queueVars
    /\ UNCHANGED feedVars

\* apply_better_vhs_effect: clip, merge, astype(np.uint8) and cvtColor
\* back to BGR; apply_vhs_filter_pil returns the image in mode "RGB"
XfReconvert ==
    /\ xf_pc = "reconvert"
    /\ Y' = clip(Y)
    /\ Cr' = clip(Cr)
    /\ Cb' = clip(Cb)
    /\ out_bgr' = ycrcb_to_bgr(astype_uint8(clip(Y)), astype_uint8(clip(Cr)),
                               astype_uint8(clip(Cb)))
    /\ xf_pc' = "done"
    /\ UNCHANGED <<via_pil, img_mode, img, luma_bandwidth, chroma_bandwidth,
                   ghost_shift_pixels, np_random, py_random, run,
                   out_first>>
    /\ UNCHANGED shiftVars
    /\ UNCHANGED diskVars
    /\ UNCHANGED crawlVars
    /\ UNCHANGED queueVars
    /\ UNCHANGED feedVars

\* the same call is made a second time, on the same image with the same
\* parameters
XfAgain ==
    /\ xf_pc = "done"
    /\ run = 1
    /\ run' = 2
    /\ out_first' = out_bgr
    /\ xf_pc' = "convert"
    /\ Y' = <<>>
    /\ Cr' = <<>>
    /\ Cb' = <<>>
    /\ out_bgr' = <<>>
    /\ UNCHANGED <<via_pil, img_mode, img, luma_bandwidth, chroma_bandwidth,
                   ghost_shift_pixels, np_random, py_random>>
    /\ UNCHANGED shiftVars
    /\ UNCHANGED diskVars
    /\ UNCHANGED crawlVars
    /\ UNCHANGED queueVars
    /\ UNCHANGED feedVars

XfNext ==
    \/ XfConvert
    \/ XfBandwidth
    \/ XfGhost
    \/ XfNoise
    \/ XfReconvert
    \/ XfAgain

TransformSpec == XfInit /\ [][XfNext]_vars

\* the result has the height and the width of the image
SameSize ==
    \A k \in 1..Len(out_bgr) :
       /\ Len(out_bgr[k]) = Len(img)
       /\ \A r \in 1..Len(img) : Len(out_bgr[k][r]) = Len(img[r])

\* C21: on an image of width 1 or height 1, or narrower than a bandwidth
\* or than the (positive) ghost shift, the transform does not raise, and
\* its result has the size of the image.
C21_NarrowImageDoesNotRaise ==
    (/\ ghost_shift_pixels > 0
     /\ \/ Len(img) = 1
        \/ Width(img) = 1
        \/ Width(img) < luma_bandwidth
        \/ Width(img) < chroma_bandwidth
        \/ Width(img) < ghost_shift_pixels) =>
       /\ xf_pc # "raised"
       /\ xf_pc = "done" => SameSize

\* C22: two invocations on the same image with the same parameters give
\* the same result.
C22_SameInputSameOutput ==
    (run = 2 /\ xf_pc = "done") => out_bgr = out_first

\* C23: for every image and all parameters the transform gives a result,
\* which has the height, the width and the number of channels of the
\* image and whose samples lie in 0..255.
C23_SizeChannelsRange ==
    xf_pc \in {"done", "raised"} =>
       /\ xf_pc = "done"
       /\ SameSize
       /\ Len(out_bgr) = Bands(img_mode)
       /\ \A k \in 1..Len(out_bgr) : \A r \in 1..Len(out_bgr[k]) :
             \A c \in 1..Len(out_bgr[k][r]) : out_bgr[k][r][c] \in 0..255

\* ------------------------------------------------------------------------
\* scraper_2.py: scrape_subreddit_images and download_image
\* ------------------------------------------------------------------------

\* download_image: "filename = url.split("/")[-1].split("?")[0]", the
\* last path component of the URL
filename(url) == url[Len(url)]

\* scrape_subreddit_images is called with some history_size on an empty
\* folder
DiskInit ==
    /\ InitQueue
    /\ InitFeed
    /\ ShiftOff
    /\ XfOff
    /\ CrawlOff
    /\ d_pc = "page"
    /\ d_pages_scraped = 0
    /\ d_next_page_url = PageUrl
    /\ history_size \in 0..MaxHistory
    /\ downloaded_urls = <<>>
    /\ tags_left = 0
    /\ files = {}
    /\ passed = [u \in DiskUrls |-> 0]

\* "while pages_scraped < max_pages and next_page_url:" and the request of
\* the page, or the end of the loop
DiskPageBegin ==
    /\ d_pc = "page"
    /\ d_pc' = IF d_pages_scraped < MaxPages /\ d_next_page_url # <<>>
               THEN "pageget" ELSE "done"
    /\ UNCHANGED <<d_pages_scraped, d_next_page_url, history_size,
                   downloaded_urls, tags_left, files, passed>>
    /\ UNCHANGED <<shiftVars, xfVars, crawlVars>>
    /\ UNCHANGED queueVars
    /\ UNCHANGED feedVars

\* The page request returns: another status than 200 ends the loop; a
\* page has some number of img tags.
DiskPageReturn ==
    /\ d_pc = "pageget"
    /\ \E ok \in BOOLEAN, n \in 0..MaxTags :
         IF ok
         THEN /\ d_pc' = "imgs"
              /\ tags_left' = n
         ELSE /\ d_pc' = "done"
              /\ UNCHANGED tags_left
    /\ UNCHANGED <<d_pages_scraped, d_next_page_url, history_size,
                   downloaded_urls, files, passed>>
    /\ UNCHANGED <<shiftVars, xfVars, crawlVars>>
    /\ UNCHANGED queueVars
    /\ UNCHANGED feedVars

\* One img tag of the page with the src attribute src: an empty src is
\* skipped; a src that is not in downloaded_urls is appended to it and
\* passed to download_image, which retrieves the file unless a file of
\* that name exists, and may fail.
DiskImage ==
    /\ d_pc = "imgs"
    /\ tags_left > 0
    /\ tags_left' = tags_left - 1
    /\ \E src \in DiskUrls, ok \in BOOLEAN :
         IF src = <<>> \/ \E k \in 1..Len(downloaded_urls) :
                             downloaded_urls[k] = src
         THEN UNCHANGED <<downloaded_urls, files, passed>>
         ELSE /\ downloaded_urls' =
                    DequeAppend(downloaded_urls, src, history_size)
              /\ passed' = [passed EXCEPT ![src] = Min(2, @ + 1)]
              /\ files' = IF filename(src) \notin files /\ ok
                          THEN files \cup {filename(src)}
                          ELSE files
    /\ UNCHANGED <<d_pc, d_pages_scraped, d_next_page_url, history_size>>
    /\ UNCHANGED <<shiftVars, xfVars, crawlVars>>
    /\ UNCHANGED queueVars
    /\ UNCHANGED feedVars

\* The img tags of the page are done: the page has a next link, its href
\* (which may be empty) becomes next_page_url and "pages_scraped += 1", or
\* it has none and the loop ends.
DiskNextPage ==
    /\ d_pc = "imgs"
    /\ tags_left = 0
    /\ \E link \in NextLinks :
         IF link # None
         THEN /\ d_next_page_url' = link
              /\ d_pages_scraped' = d_pages_scraped + 1
              /\ d_pc' = "page"
         ELSE /\ d_pc' = "done"
              /\ UNCHANGED <<d_pages_scraped, d_next_page_url>>
    /\ UNCHANGED <<history_size, downloaded_urls, tags_left, files, passed>>
    /\ UNCHANGED <<shiftVars, xfVars, crawlVars>>
    /\ UNCHANGED queueVars
    /\ UNCHANGED feedVars

DiskNext ==
    \/ DiskPageBegin
    \/ DiskPageReturn
    \/ DiskImage
    \/ DiskNextPage

DiskSpec == DiskInit /\ [][DiskNext]_vars

\* C25: in one run, whatever the (positive) history_size is, no URL is
\* passed to download_image more than once.
C25_DownloadedOnce ==
    history_size >= 1 => \A u \in DiskUrls : passed[u] <= 1

\* ------------------------------------------------------------------------
\* scraper.py: RedditCrawler
\* ------------------------------------------------------------------------

\* the src attributes of the images: two images of i.redd.it and one of
\* external-preview.redd.it
CrawlSrcs == {"i1", "i2", "ext"}

\* is_valid_image
is_valid_image(src) == src # "ext"

\* A zoomable-img element: the created-timestamp of its post is not older
\* than the cutoff date ("new"), older ("old"), or cannot be read ("bad").
Elements == [date : {"new", "old", "bad"}, src : CrawlSrcs]

\* the lists of the elements visible at once
RECURSIVE ElementLists(_)
ElementLists(n) ==
    IF n = 0 THEN {<<>>}
    ELSE LET shorter == ElementLists(n - 1)
         IN shorter \cup {Append(l, e) : l \in {x \in shorter : Len(x) = n - 1},
                                         e \in Elements}

\* process_visible_images: the loop over the elements from the i-th on.
\* A post older than the cutoff ends the loop with terminate(); a date
\* that cannot be read is logged and the image is processed; an image not
\* processed before is recorded and, if valid, passed to download_image.
RECURSIVE VisibleLoop(_, _, _)
VisibleLoop(elems, i, acc) ==
    IF i > Len(elems) THEN acc
    ELSE LET e == elems[i]
         IN IF e.date = "old"
            THEN [acc EXCEPT !.terminated = TRUE]
            ELSE IF e.src \in acc.processed
            THEN VisibleLoop(elems, i + 1, acc)
            ELSE VisibleLoop(elems, i + 1,
                   [acc EXCEPT
                      !.processed = @ \cup {e.src},
                      !.downloaded = IF is_valid_image(e.src)
                                     THEN @ \cup {e.src} ELSE @])

\* main: RedditCrawler().start()
CrawlInit ==
    /\ InitQueue
    /\ InitFeed
    /\ ShiftOff
    /\ XfOff
    /\ DiskOff
    /\ c_pc = "init"
    /\ driver = FALSE
    /\ processed_images = {}
    /\ downloaded = {}
    /\ sessions = 0
    /\ cutoff_seen = FALSE

\* start: "self.initialize_driver()" and "self.driver.get(MAIN_PAGE_URL)"
\* at the top of the outer loop; an exception goes to the handlers of the
\* outer try and to its finally.  initialize_driver raises before it has
\* set self.driver, driver.get raises after.
CrawlInitDriver ==
    /\ c_pc = "init"
    /\ sessions < MaxSessions
    /\ sessions' = sessions + 1
    /\ \E outcome \in {"ok", "init raises", "get raises"} :
         /\ driver' = (outcome # "init raises")
         /\ c_pc' = IF outcome = "ok" THEN "visible" ELSE "finally"
    /\ UNCHANGED <<processed_images, downloaded, cutoff_seen>>
    /\ UNCHANGED <<shiftVars, xfVars, diskVars>>
    /\ UNCHANGED queueVars
    /\ UNCHANGED feedVars

\* start: "self.process_visible_images()".  Without a driver self.wait is
\* None and the call raises, which ends the inner loop, as does an
\* exception of "self.wait.until" other than TimeoutException; the wait
\* may time out, which the method handles (no element); otherwise the
\* loop over the elements runs, and a post older than the cutoff makes it
\* call terminate() and return.
CrawlVisible ==
    /\ c_pc = "visible"
    /\ \/ /\ c_pc' = "finally"
          /\ UNCHANGED <<driver, processed_images, downloaded,
                         cutoff_seen>>
       \/ /\ driver
          /\ \E elems \in ElementLists(MaxVisible) :
               LET res == VisibleLoop(elems, 1,
                             [processed |-> processed_images,
                              downloaded |-> downloaded,
                              terminated |-> FALSE])
               IN /\ processed_images' = res.processed
                  /\ downloaded' = res.downloaded
                  /\ driver' = ~res.terminated
                  /\ cutoff_seen' = (cutoff_seen \/ res.terminated)
                  /\ c_pc' = "gallery"
    /\ UNCHANGED sessions
    /\ UNCHANGED <<shiftVars, xfVars, diskVars>>
    /\ UNCHANGED queueVars
    /\ UNCHANGED feedVars

\* start: "self.process_gallery_carousels()".  Without a driver self.wait
\* is None and "self.wait.until" raises AttributeError, which ends the
\* inner loop, as does an exception of "self.wait.until" other than
\* TimeoutException; otherwise the images of the carousels that were not
\* processed before are recorded, and those of them whose src has an
\* image id (extract_image_id) are passed to download_image, without a
\* test of is_valid_image.
CrawlGallery ==
    /\ c_pc = "gallery"
    /\ \/ /\ c_pc' = "finally"
          /\ UNCHANGED <<processed_images, downloaded>>
       \/ /\ driver
          /\ \E imgs \in SUBSET CrawlSrcs :
               \E with_id \in SUBSET imgs :
                  /\ processed_images' = processed_images \cup imgs
                  /\ downloaded' =
                        downloaded \cup (with_id \ processed_images)
                  /\ c_pc' = "scroll"
    /\ UNCHANGED <<driver, sessions, cutoff_seen>>
    /\ UNCHANGED <<shiftVars, xfVars, diskVars>>
    /\ UNCHANGED queueVars
    /\ UNCHANGED feedVars

\* start: "if not self.scroll_down(): break"
CrawlScroll ==
    /\ c_pc = "scroll"
    /\ \E scrolled \in BOOLEAN :
         c_pc' = IF scrolled THEN "visible" ELSE "finally"
    /\ UNCHANGED <<driver, processed_images, downloaded, sessions,
                   cutoff_seen>>
    /\ UNCHANGED <<shiftVars, xfVars, diskVars>>
    /\ UNCHANGED queueVars
    /\ UNCHANGED feedVars

\* start: "finally: self.terminate()" and the sleep of one minute begins
CrawlFinally ==
    /\ c_pc = "finally"
    /\ driver' = FALSE
    /\ c_pc' = "sleep"
    /\ UNCHANGED <<processed_images, downloaded, sessions, cutoff_seen>>
    /\ UNCHANGED <<shiftVars, xfVars, diskVars>>
    /\ UNCHANGED queueVars
    /\ UNCHANGED feedVars

\* start: "time.sleep(60)" is over and the outer loop starts again
CrawlRestart ==
    /\ c_pc = "sleep"
    /\ c_pc' = "init"
    /\ UNCHANGED <<driver, processed_images, downloaded, sessions,
                   cutoff_seen>>
    /\ UNCHANGED <<shiftVars, xfVars, diskVars>>
    /\ UNCHANGED queueVars
    /\ UNCHANGED feedVars

CrawlNext ==
    \/ CrawlInitDriver
    \/ CrawlVisible
    \/ CrawlGallery
    \/ CrawlScroll
    \/ CrawlFinally
    \/ CrawlRestart

CrawlSpec == CrawlInit /\ [][CrawlNext]_vars

\* C28: once the crawler has met a post older than the cutoff date, it
\* passes no further image to download_image and starts no new session.
C28_StopsAtCutoff ==
    [][cutoff_seen =>
          /\ downloaded' = downloaded
          /\ sessions' = sessions]_vars

\* ------------------------------------------------------------------------
\* ImageCreator.py: run_feed_task over several cycles
\* ------------------------------------------------------------------------

\* C31: within one session and one feed, an image that is sent carries a
\* timestamp that no image sent in an earlier poll cycle carried, whatever
\* fetch failures, catalog failures or send errors the cycles before had:
\* as an item keeps its timestamp, no item sent in one cycle is sent again
\* in a later one.  Within a cycle the images sent are entries of the
\* document read, none taken more often than the document lists it.
C31_NoItemSentTwice ==
    [][\A f \in Feeds :
          sent'[f] = sent[f] + 1 =>
             /\ images[f][sent'[f]].published \notin delivered[f]
             /\ \A e \in Elems(images[f]) :
                   Count(images[f], e) <= Count(catalog[f], e)]_vars

\* C31 witness: an image was sent in a cycle although the document still
\* lists an entry with an image whose timestamp was sent in an earlier
\* cycle
C31_Witness ==
    \E f \in Feeds :
       /\ sent[f] > 0
       /\ delivered[f] # {}
       /\ \E i \in 1..Len(catalog[f]) :
             /\ has_img_url(extract_image_url_from_entry(catalog[f][i]))
             /\ catalog[f][i].published \in delivered[f]

====
